---- MODULE Spec2Model ----
(***************************************************************************)
(* MKLOperator<T> (caffe2/mkl/utils/mkl_operator.h): the adapter between   *)
(* the execution engine and the MKLDNN operators.  The model follows the   *)
(* event signalling of Run, RecordEvent, WaitEvent and WaitEvents, and     *)
(* ExecutePrimitive with the members a subclass configures.                *)
(*                                                                         *)
(* Text is a sequence of chunks.  The chunk NUL is the character '\0': a   *)
(* std::string may hold it, a const char* ends at it.                      *)
(***************************************************************************)
EXTENDS Naturals, Sequences, FiniteSets

VARIABLES
    event_,     \* event_[op]: whether the operator has an associated event (event_ != nullptr)
    debug_def_, \* debug_def_[op]: [has, text], has_debug_def() and ProtoDebugString(debug_def())
    ev,         \* ev[op]: the signals the operator's event has received, oldest first
    pc,         \* pc[op]: "idle", or "RunOnDevice" while Run is inside the hook
    run,        \* the Run invocation, when the latest call of the engine is a Run
    rec,        \* the latest RecordEvent call within the latest call of the engine
    wait,       \* the WaitEvent / WaitEvents call, when it is the latest call of the engine
    owned,      \* owned[op]: primitive_, resources_, input_size_cache_ and buffer_
    exec        \* the latest ExecutePrimitive call within the latest call of the engine

vars == <<event_, debug_def_, ev, pc, run, rec, wait, owned, exec>>

(* ------------------------------ bounds -------------------------------- *)

\* No call that signals is begun once the events hold MaxSignals signals
\* between them.
MaxSignals == 2
\* The longest sequence of events handed to WaitEvents.
MaxEvents == 2

Ops == {"opA", "opB"}
StreamIds == {0, 1}
\* The operators whose RunOnDevice goes through the primitive.
Primitives == {"opA"}
\* The shapes of the inputs a subclass meets.
Shapes == {"2x3"}
\* The status codes of the kernel call.
KernelStatuses == {"E_SUCCESS", "E_MEMORY_ERROR"}

(* ------------------------------- text --------------------------------- *)

NUL == "\\0"

\* The debug texts an operator definition may print as.
DebugTexts == {<<"name: op">>, <<"na", NUL, "me">>}
\* The messages of the violations RunOnDevice raises.
ViolationTexts == {<<"enforce failed">>, <<"bad", NUL, "blob">>}

\* std::string::c_str() read as a C string: the text before the first NUL.
CStr(s) ==
    LET nuls == {i \in 1..Len(s) : s[i] = NUL}
    IN  IF nuls = {} THEN s
        ELSE SubSeq(s, 1, (CHOOSE i \in nuls : \A j \in nuls : i <= j) - 1)

\* A const char* argument: nullptr, or a C string.
Nullptr == [given |-> FALSE, text |-> << >>]
Msg(t) == [given |-> TRUE, text |-> CStr(t)]
\* What a caller of RecordEvent may pass.
CallerArgs == {Nullptr, Msg(<<"caller message">>)}

getErrorMsg(op) ==
    IF debug_def_[op].has
        THEN <<"Error from operator: ">> \o debug_def_[op].text
        ELSE <<"Error from operator: ", "no op def">>

\* EnforceNotMet::AppendMessage: the message is added after the text so far.
AppendMessage(err, msg) == err \o msg
\* EnforceNotMet::what(): the full text, as a const char*.
what(err) == Msg(err)

(* ------------------------------ events -------------------------------- *)

Finished(by) == [kind |-> "finished", msg |-> << >>, by |-> by]
Failed(text, by) == [kind |-> "failed", msg |-> text, by |-> by]

\* Event::SetFinished on the operator's event.
SetFinished(op, by) == Append(ev[op], Finished(by))

\* MKLContext::Record(event, err_msg): completion without a message, failure
\* with the message otherwise.
ContextRecord(op, arg, by) ==
    Append(ev[op], IF arg.given THEN Failed(arg.text, by) ELSE Finished(by))

\* MKLContext::WaitEvent(ev): returns once the event has reached a terminal
\* state.
ContextWaitEvent(e) == Len(ev[e]) > 0

\* OperatorBase::event() when the operator has an event: the event.  Without
\* one the accessor either enforces (raising into the try block of Run) or
\* hands out a reference to nothing, on which SetFinished signals no event.
eventAccess(op) == IF event_[op] THEN {"event"} ELSE {"enforce", "unchecked"}

\* The value of rec after a RecordEvent call.
Recorded(op, arg, n) ==
    [op |-> op, arg |-> arg, ctxRecord |-> n]

\* RecordEvent without the test of event_: the context records although the
\* operator has no event.
RecordEvent_unguarded(op, arg, by) ==
    /\ ev' = [ev EXCEPT ![op] = ContextRecord(op, arg, by)]
    /\ rec' = Recorded(op, arg, 1)

\* RecordEvent that leaves the message behind: context_.Record(event_.get()).
RecordEvent_nomessage(op, arg, by) ==
    IF event_[op]
        THEN /\ ev' = [ev EXCEPT ![op] = ContextRecord(op, Nullptr, by)]
             /\ rec' = Recorded(op, arg, 1)
        ELSE /\ ev' = ev
             /\ rec' = Recorded(op, arg, 0)

\* RecordEvent(err_msg) called from `by`: the event's signals after the call.
RecordEvent(op, arg, by) ==
    IF event_[op]
        THEN /\ ev' = [ev EXCEPT ![op] = ContextRecord(op, arg, by)]
             /\ rec' = Recorded(op, arg, 1)
        ELSE /\ ev' = ev
             /\ rec' = Recorded(op, arg, 0)

(* ------------------------------ initial ------------------------------- *)

NoOp == "none"
NoRun ==
    [op |-> NoOp, outcome |-> "none", hookMsg |-> << >>, ret |-> "none",
     raised |-> << >>, start |-> 0, hooks |-> 0]
NoRec == [op |-> NoOp, arg |-> Nullptr, ctxRecord |-> 0]
NoWait == [op |-> NoOp, call |-> "none", args |-> << >>, waited |-> << >>]
NoExec == [op |-> NoOp, status |-> "E_SUCCESS", result |-> "none"]

\* The members as the constructor leaves them, and as a subclass sets them up
\* for inputs of one shape.
Unconfigured ==
    [primitive_ |-> "none", resources_ |-> "none", input_size_cache_ |-> "none",
     buffer_ |-> "none"]
Configured(shape) ==
    [primitive_ |-> shape, resources_ |-> shape, input_size_cache_ |-> shape,
     buffer_ |-> shape]

DebugDefs ==
    {[has |-> FALSE, text |-> << >>]} \cup {[has |-> TRUE, text |-> t] : t \in DebugTexts}

Init ==
    /\ event_ \in [Ops -> BOOLEAN]
    /\ debug_def_ \in {[op \in Ops |-> d] : d \in DebugDefs}
    /\ ev = [op \in Ops |-> << >>]
    /\ pc = [op \in Ops |-> "idle"]
    /\ run = NoRun
    /\ rec = NoRec
    /\ wait = NoWait
    /\ owned = [op \in Ops |-> Unconfigured]
    /\ exec = NoExec

RECURSIVE SignalsOf(_)
SignalsOf(S) ==
    IF S = {} THEN 0
    ELSE LET o == CHOOSE x \in S : TRUE IN Len(ev[o]) + SignalsOf(S \ {o})

\* The engine is free to make its next call: no operator is inside Run.
EngineIdle == \A o \in Ops : pc[o] = "idle"
\* ... and the call may signal.
MaySignal == SignalsOf(Ops) < MaxSignals
\* The engine waits once between two of its other calls: waiting changes no
\* event, so a second wait in a row meets the events the first one met.
MayWait == EngineIdle /\ wait = NoWait

(* -------------------------------- Run --------------------------------- *)

\* Run that serves the default stream only.
Run_call_onstream(op, stream_id) ==
    /\ stream_id = 0
    /\ EngineIdle
    /\ MaySignal
    /\ pc' = [pc EXCEPT ![op] = "RunOnDevice"]
    /\ run' = [NoRun EXCEPT !.op = op, !.start = Len(ev[op]), !.hooks = 1]
    /\ rec' = NoRec
    /\ wait' = NoWait
    /\ UNCHANGED <<event_, debug_def_, owned, ev>>
    /\ exec' = NoExec

\* Run(stream_id) enters the try block and calls RunOnDevice().
Run_call(op, stream_id) ==
    /\ EngineIdle
    /\ MaySignal
    /\ pc' = [pc EXCEPT ![op] = "RunOnDevice"]
    /\ run' = [NoRun EXCEPT !.op = op, !.start = Len(ev[op]), !.hooks = 1]
    /\ rec' = NoRec
    /\ wait' = NoWait
    /\ UNCHANGED <<event_, debug_def_, owned, ev>>
    /\ exec' = NoExec

\* A subclass calls RecordEvent from inside RunOnDevice.
RunOnDevice_RecordEvent(op, arg) ==
    /\ pc[op] = "RunOnDevice"
    /\ MaySignal
    /\ RecordEvent(op, arg, "RunOnDevice")
    /\ UNCHANGED <<event_, debug_def_, owned, pc, run, wait>>
    /\ exec' = exec

\* The catch block of Run: the EnforceNotMet err, raised while the hook's
\* outcome was `outcome`, gets the operator's message appended, is recorded
\* on the event and is thrown again.
Run_catch(op, outcome, err) ==
    LET full == AppendMessage(err, getErrorMsg(op))
    IN  /\ RecordEvent(op, what(full), "Run")
        /\ run' = [run EXCEPT !.outcome = outcome, !.hookMsg = err,
                              !.ret = "raised", !.raised = full]

(* ---------------------- inside RunOnDevice --------------------------- *)

\* A subclass sets up its primitive, resources, size cache and buffer for
\* the shape of its inputs.
RunOnDevice_configure(op, shape) ==
    /\ pc[op] = "RunOnDevice"
    /\ owned[op] # Configured(shape)
    /\ owned' = [owned EXCEPT ![op] = Configured(shape)]
    /\ UNCHANGED <<event_, debug_def_, ev, pc, run, rec, wait, exec>>

\* MKLDNN_SAFE_CALL(status): enforces that the status is the success status.
MKLDNN_SAFE_CALL(status) == IF status = "E_SUCCESS" THEN "returned" ELSE "raised"
\* The message of the violation MKLDNN_SAFE_CALL raises.
SafeCallText(status) == <<"Error at ExecutePrimitive: ", status>>

\* ExecutePrimitive handing the status back to its caller instead of raising.
ExecutePrimitive_soft(op, status) ==
    [op |-> op, status |-> status,
     result |-> IF status = "E_SUCCESS" THEN "returned" ELSE "false"]

\* ExecutePrimitive() when dnnExecute returns `status`.
ExecutePrimitive(op, status) ==
    [op |-> op, status |-> status, result |-> MKLDNN_SAFE_CALL(status)]

\* A subclass calls ExecutePrimitive from inside RunOnDevice; a violation it
\* raises leaves RunOnDevice and reaches the catch block of Run.
RunOnDevice_ExecutePrimitive(op, status) ==
    /\ pc[op] = "RunOnDevice"
    /\ exec' = ExecutePrimitive(op, status)
    /\ IF exec'.result = "raised"
          THEN /\ pc' = [pc EXCEPT ![op] = "idle"]
               /\ Run_catch(op, "EnforceNotMet", SafeCallText(status))
          ELSE UNCHANGED <<ev, pc, run, rec>>
    /\ UNCHANGED <<event_, debug_def_, owned, wait>>

\* Run calling RunOnDevice once more after a false result.
Run_return_retry(op, result) ==
    /\ pc[op] = "RunOnDevice"
    /\ IF result
          THEN /\ pc' = [pc EXCEPT ![op] = "idle"]
               /\ ev' = [ev EXCEPT ![op] = SetFinished(op, "Run")]
               /\ run' = [run EXCEPT !.outcome = "true", !.ret = "true"]
          ELSE /\ run' = [run EXCEPT !.hooks = run.hooks + 1]
               /\ UNCHANGED <<ev, pc>>
    /\ UNCHANGED <<event_, debug_def_, owned, wait, rec, exec>>

\* Run_return with the `else` lost: a false result is recorded as a failure
\* and the event is then marked finished as well.
Run_return_fallthrough(op, result) ==
    /\ pc[op] = "RunOnDevice"
    /\ pc' = [pc EXCEPT ![op] = "idle"]
    /\ run' = [run EXCEPT !.outcome = IF result THEN "true" ELSE "false",
                          !.ret = IF result THEN "true" ELSE "false"]
    /\ IF event_[op]
          THEN IF result
                  THEN /\ ev' = [ev EXCEPT ![op] = SetFinished(op, "Run")]
                       /\ rec' = rec
                  ELSE /\ ev' = [ev EXCEPT ![op] =
                                    Append(ContextRecord(op, Msg(getErrorMsg(op)), "Run"),
                                           Finished("Run"))]
                       /\ rec' = Recorded(op, Msg(getErrorMsg(op)), 1)
          ELSE UNCHANGED <<ev, rec>>
    /\ UNCHANGED <<event_, debug_def_, owned, wait>>
    /\ exec' = exec

\* Run_return with the test of the result inverted.
Run_return_inverted(op, result) ==
    /\ pc[op] = "RunOnDevice"
    /\ pc' = [pc EXCEPT ![op] = "idle"]
    /\ run' = [run EXCEPT !.outcome = IF result THEN "true" ELSE "false",
                          !.ret = IF result THEN "true" ELSE "false"]
    /\ IF result
          THEN RecordEvent(op, Msg(getErrorMsg(op)), "Run")
          ELSE IF event_[op]
                  THEN /\ ev' = [ev EXCEPT ![op] = SetFinished(op, "Run")]
                       /\ rec' = rec
                  ELSE UNCHANGED <<ev, rec>>
    /\ UNCHANGED <<event_, debug_def_, owned, wait>>
    /\ exec' = exec

\* Run remembering a failure of an earlier invocation: a true result after
\* one is reported as a failure.
Run_return_sticky(op, result) ==
    LET failedBefore == \E i \in 1..run.start : ev[op][i].kind = "failed"
    IN  /\ pc[op] = "RunOnDevice"
        /\ pc' = [pc EXCEPT ![op] = "idle"]
        /\ IF result /\ ~failedBefore
              THEN /\ run' = [run EXCEPT !.outcome = "true", !.ret = "true"]
                   /\ IF event_[op]
                         THEN /\ ev' = [ev EXCEPT ![op] = SetFinished(op, "Run")]
                              /\ rec' = rec
                         ELSE UNCHANGED <<ev, rec>>
              ELSE /\ RecordEvent(op, Msg(getErrorMsg(op)), "Run")
                   /\ run' = [run EXCEPT !.outcome = IF result THEN "true" ELSE "false",
                                         !.ret = "false"]
        /\ UNCHANGED <<event_, debug_def_, owned, wait, exec>>

\* RunOnDevice returned `result`: the rest of the try block.
Run_return(op, result) ==
    /\ pc[op] = "RunOnDevice"
    /\ pc' = [pc EXCEPT ![op] = "idle"]
    /\ IF result
          THEN \E acc \in eventAccess(op) :
                  CASE acc = "event" ->
                         /\ ev' = [ev EXCEPT ![op] = SetFinished(op, "Run")]
                         /\ run' = [run EXCEPT !.outcome = "true", !.ret = "true"]
                         /\ rec' = rec
                    [] acc = "unchecked" ->
                         /\ run' = [run EXCEPT !.outcome = "true", !.ret = "true"]
                         /\ UNCHANGED <<ev, rec>>
                    [] acc = "enforce" ->
                         Run_catch(op, "true", <<"Event is disabled">>)
          ELSE /\ RecordEvent(op, Msg(getErrorMsg(op)), "Run")
               /\ run' = [run EXCEPT !.outcome = "false", !.ret = "false"]
    /\ UNCHANGED <<event_, debug_def_, owned, wait>>
    /\ exec' = exec

\* The catch block releasing the primitive and what belongs to it.
Run_raise_release(op, err) ==
    /\ pc[op] = "RunOnDevice"
    /\ pc' = [pc EXCEPT ![op] = "idle"]
    /\ Run_catch(op, "EnforceNotMet", err)
    /\ owned' = [owned EXCEPT ![op] = Unconfigured]
    /\ UNCHANGED <<event_, debug_def_, wait, exec>>

\* RunOnDevice raised EnforceNotMet with the message err: the catch block.
Run_raise(op, err) ==
    /\ pc[op] = "RunOnDevice"
    /\ pc' = [pc EXCEPT ![op] = "idle"]
    /\ Run_catch(op, "EnforceNotMet", err)
    /\ UNCHANGED <<event_, debug_def_, owned, wait>>
    /\ exec' = exec

\* RunOnDevice raised something that is no EnforceNotMet: no handler of Run
\* catches it.
Run_propagate(op) ==
    /\ pc[op] = "RunOnDevice"
    /\ pc' = [pc EXCEPT ![op] = "idle"]
    /\ run' = [run EXCEPT !.outcome = "other", !.ret = "raised",
                          !.raised = <<"other exception">>]
    /\ UNCHANGED <<event_, debug_def_, owned, ev, rec, wait>>
    /\ exec' = exec

(* ---------------------------- RecordEvent ----------------------------- *)

\* The engine calls RecordEvent(err_msg).
RecordEvent_call(op, arg) ==
    /\ EngineIdle
    /\ MaySignal
    /\ RecordEvent(op, arg, "caller")
    /\ run' = NoRun
    /\ wait' = NoWait
    /\ UNCHANGED <<event_, debug_def_, owned, pc>>
    /\ exec' = NoExec

(* ------------------------ WaitEvent, WaitEvents ----------------------- *)

\* The operators that have an event to wait on.
Events == {e \in Ops : event_[e]}

RECURSIVE SeqsUpTo(_, _)
SeqsUpTo(S, n) ==
    IF n = 0 THEN {<< >>}
    ELSE LET shorter == SeqsUpTo(S, n - 1)
         IN  shorter \cup {Append(s, x) : s \in shorter, x \in S}

\* The sequences of events the engine hands to WaitEvents.
EventLists == SeqsUpTo(Ops, MaxEvents)

\* WaitEvent that returns without the call of context_.WaitEvent.
WaitEvent_nowait(op, e, stream_id) ==
    /\ MayWait
    /\ e \in Events
    /\ wait' = [op |-> op, call |-> "WaitEvent", args |-> <<e>>, waited |-> << >>]
    /\ run' = NoRun
    /\ rec' = NoRec
    /\ UNCHANGED <<event_, debug_def_, owned, ev, pc>>
    /\ exec' = NoExec

\* WaitEvent(ev, stream_id): context_.WaitEvent(ev), which returns once the
\* event is terminal.
WaitEvent(op, e, stream_id) ==
    /\ MayWait
    /\ e \in Events
    /\ ContextWaitEvent(e)
    /\ wait' = [op |-> op, call |-> "WaitEvent", args |-> <<e>>, waited |-> <<e>>]
    /\ run' = NoRun
    /\ rec' = NoRec
    /\ UNCHANGED <<event_, debug_def_, owned, ev, pc>>
    /\ exec' = NoExec

\* An event that has been signaled as failed.
HasFailed(e) == \E i \in 1..Len(ev[e]) : ev[e][i].kind = "failed"

\* The loop of WaitEvents leaving at the first event that has failed.
RECURSIVE WaitLoop_shortcircuit(_, _)
WaitLoop_shortcircuit(todo, waited) ==
    IF todo = << >> THEN [returns |-> TRUE, waited |-> waited]
    ELSE IF ContextWaitEvent(Head(todo))
            THEN IF HasFailed(Head(todo))
                    THEN [returns |-> TRUE, waited |-> Append(waited, Head(todo))]
                    ELSE WaitLoop_shortcircuit(Tail(todo), Append(waited, Head(todo)))
            ELSE [returns |-> FALSE, waited |-> Append(waited, Head(todo))]

\* The loop of WaitEvents over the events still to do: the events waited on
\* when the loop is through, in the order of the calls of context_.WaitEvent,
\* and whether every call has returned.
RECURSIVE WaitLoop(_, _)
WaitLoop(todo, waited) ==
    IF todo = << >> THEN [returns |-> TRUE, waited |-> waited]
    ELSE IF ContextWaitEvent(Head(todo))
            THEN WaitLoop(Tail(todo), Append(waited, Head(todo)))
            ELSE [returns |-> FALSE, waited |-> Append(waited, Head(todo))]

\* WaitEvents(events, stream_id).
WaitEvents(op, events, stream_id) ==
    LET loop == WaitLoop(events, << >>)
    IN  /\ MayWait
        /\ \A i \in 1..Len(events) : events[i] \in Events
        /\ loop.returns
        /\ wait' = [op |-> op, call |-> "WaitEvents", args |-> events,
                    waited |-> loop.waited]
        /\ run' = NoRun
        /\ rec' = NoRec
        /\ UNCHANGED <<event_, debug_def_, owned, ev, pc>>
        /\ exec' = NoExec

(* ---------------------------- specification --------------------------- *)
Next ==
    \/ \E op \in Ops, stream_id \in StreamIds : Run_call(op, stream_id)
    \/ \E op \in Ops, arg \in CallerArgs : RunOnDevice_RecordEvent(op, arg)
    \/ \E op \in Ops, result \in BOOLEAN : Run_return(op, result)
    \/ \E op \in Ops, err \in ViolationTexts : Run_raise(op, err)
    \/ \E op \in Ops : Run_propagate(op)
    \/ \E op \in Ops, arg \in CallerArgs : RecordEvent_call(op, arg)
    \/ \E op \in Ops, e \in Ops, stream_id \in StreamIds : WaitEvent(op, e, stream_id)
    \/ \E op \in Ops, events \in EventLists, stream_id \in StreamIds :
          WaitEvents(op, events, stream_id)

Spec == Init /\ [][Next]_vars

\* The steps of the operators whose RunOnDevice sets up the primitive and
\* runs it through ExecutePrimitive, with the calls the engine makes on them.
NextPrimitive ==
    \/ \E op \in Primitives, stream_id \in StreamIds : Run_call(op, stream_id)
    \/ \E op \in Primitives, shape \in Shapes : RunOnDevice_configure(op, shape)
    \/ \E op \in Primitives, status \in KernelStatuses :
          RunOnDevice_ExecutePrimitive(op, status)
    \/ \E op \in Primitives, arg \in CallerArgs : RunOnDevice_RecordEvent(op, arg)
    \/ \E op \in Primitives, result \in BOOLEAN : Run_return(op, result)
    \/ \E op \in Primitives, err \in ViolationTexts : Run_raise(op, err)
    \/ \E op \in Primitives : Run_propagate(op)
    \/ \E op \in Primitives, arg \in CallerArgs : RecordEvent_call(op, arg)
    \/ \E op \in Primitives, e \in Ops, stream_id \in StreamIds :
          WaitEvent(op, e, stream_id)
    \/ \E op \in Primitives, events \in EventLists, stream_id \in StreamIds :
          WaitEvents(op, events, stream_id)

SpecPrimitive == Init /\ [][NextPrimitive]_vars

(* ------------------------- the latest invocation ---------------------- *)

\* The latest call of the engine is a Run that has returned or raised.
RunDone == run.op # NoOp /\ pc[run.op] = "idle"

\* The signals the event of the running operator received since Run was entered.
InvSignals == SubSeq(ev[run.op], run.start + 1, Len(ev[run.op]))
ByRun(s) == s.by = "Run"
ByHook(s) == s.by = "RunOnDevice"
\* ... those Run emitted itself, and those RunOnDevice emitted through RecordEvent.
RunSignals == SelectSeq(InvSignals, ByRun)
HookSignals == SelectSeq(InvSignals, ByHook)
Kinds(sigs) == {sigs[i].kind : i \in 1..Len(sigs)}

(* ------------------------------- claims ------------------------------- *)

\* C1 as stated: for every operator and every outcome, after Run has
\* returned normally exactly one of finished and failed has been signaled on
\* the event, never both and never neither.
C1_Original ==
    (RunDone /\ run.ret \in {"true", "false"}) => Cardinality(Kinds(InvSignals)) = 1

\* C1, amended: when the operator has an event and RunOnDevice did not itself
\* call RecordEvent, then after Run has returned normally exactly one signal,
\* finished or failed, has been emitted on the event.
C1_ExactlyOneAfterReturn ==
    (/\ RunDone
     /\ run.ret \in {"true", "false"}
     /\ event_[run.op]
     /\ HookSignals = << >>)
    => /\ Len(InvSignals) = 1
       /\ InvSignals[1].kind \in {"finished", "failed"}

C1_Witness ==
    /\ RunDone
    /\ run.ret = "false"
    /\ event_[run.op]
    /\ HookSignals = << >>
    /\ Len(InvSignals) = 1

\* C2 as stated, for an operator that has an event and a hook that signals
\* nothing itself: whichever way Run exits (true, false or any raise out of
\* RunOnDevice), exactly one terminal state, finished or failed, has been
\* emitted when Run is left.
C2_Original ==
    (RunDone /\ event_[run.op] /\ HookSignals = << >>)
    => /\ Len(InvSignals) = 1
       /\ InvSignals[1].kind \in {"finished", "failed"}

\* C3 as stated, for an operator that has an event: if RunOnDevice returns
\* true, Run returns true, the event is marked finished and is never marked
\* failed during the invocation.
C3_Original ==
    (RunDone /\ run.outcome = "true" /\ event_[run.op])
    => /\ run.ret = "true"
       /\ "finished" \in Kinds(InvSignals)
       /\ "failed" \notin Kinds(InvSignals)

\* C3, amended: if RunOnDevice returns true on an operator that has an event,
\* Run returns true and the one signal Run itself emits marks the event
\* finished.
C3_TrueIsFinished ==
    (RunDone /\ run.outcome = "true" /\ event_[run.op])
    => /\ run.ret = "true"
       /\ RunSignals = <<Finished("Run")>>

C3_Witness ==
    /\ RunDone
    /\ run.outcome = "true"
    /\ event_[run.op]
    /\ run.ret = "true"
    /\ Len(HookSignals) = 1
    /\ HookSignals[1].kind = "failed"

\* C4 as stated, for an operator that has an event: if RunOnDevice returns
\* false, Run returns false without raising, the event is marked failed and
\* never finished, and the message on the event is not empty.
C4_Original ==
    (RunDone /\ run.outcome = "false" /\ event_[run.op])
    => /\ run.ret = "false"
       /\ "finished" \notin Kinds(InvSignals)
       /\ InvSignals # << >>
       /\ InvSignals[Len(InvSignals)].kind = "failed"
       /\ InvSignals[Len(InvSignals)].msg # << >>

\* C4, amended: if RunOnDevice returns false, Run returns false without
\* raising; on an operator that has an event the one signal Run itself emits
\* marks the event failed, with a message that is not empty.
C4_FalseIsFailed ==
    (RunDone /\ run.outcome = "false")
    => /\ run.ret = "false"
       /\ event_[run.op]
            => /\ Len(RunSignals) = 1
               /\ RunSignals[1].kind = "failed"
               /\ RunSignals[1].msg # << >>
       /\ ~event_[run.op] => InvSignals = << >>

C4_Witness ==
    /\ RunDone
    /\ run.outcome = "false"
    /\ run.ret = "false"
    /\ event_[run.op]
    /\ Len(HookSignals) = 1
    /\ HookSignals[1].kind = "finished"
    /\ Len(RunSignals) = 1

\* C5 as stated, for an operator that has an event: if RunOnDevice raises a
\* consistency violation, Run raises it again, its message being the
\* original one followed by the operator's message, and the event is marked
\* failed with that full text.
C5_Original ==
    (RunDone /\ run.outcome = "EnforceNotMet" /\ event_[run.op])
    => /\ run.ret = "raised"
       /\ run.raised = run.hookMsg \o getErrorMsg(run.op)
       /\ Len(RunSignals) = 1
       /\ RunSignals[1] = Failed(run.raised, "Run")

\* C6 as stated: an event is signaled once over its lifetime, and never while
\* RunOnDevice is executing.
C6_Original ==
    \A op \in Ops :
        /\ Len(ev[op]) <= 1
        /\ \A i \in 1..Len(ev[op]) : ev[op][i].by # "RunOnDevice"

\* C6, amended: a step of Run emits a signal only when it leaves RunOnDevice,
\* and then at most one; it emits exactly one when the operator has an event
\* and RunOnDevice returned or raised a consistency violation, and none when
\* another exception leaves RunOnDevice.  Any other signal on an event comes
\* from a call of RecordEvent, by the engine or from inside RunOnDevice, one
\* signal a call, and nothing keeps an event from being signaled again.
C6_RunSignalsOnceOnLeaving ==
    [][\A op \in Ops :
          LET new == SubSeq(ev'[op], Len(ev[op]) + 1, Len(ev'[op]))
              leaving == pc[op] = "RunOnDevice" /\ pc'[op] = "idle"
          IN  /\ Len(ev'[op]) >= Len(ev[op])
              /\ SubSeq(ev'[op], 1, Len(ev[op])) = ev[op]
              /\ Len(new) <= 1
              /\ \A i \in 1..Len(new) :
                    /\ new[i].by = "Run" <=> leaving
                    /\ new[i].by = "RunOnDevice" => pc[op] = "RunOnDevice" /\ pc'[op] = "RunOnDevice"
                    /\ new[i].by = "caller" => pc[op] = "idle" /\ pc'[op] = "idle"
              /\ leaving =>
                    Len(new) = IF event_[op] /\ run'.outcome # "other" THEN 1 ELSE 0
      ]_vars

C6_Witness ==
    /\ RunDone
    /\ event_[run.op]
    /\ Len(InvSignals) = 2
    /\ InvSignals[1].by = "RunOnDevice"
    /\ InvSignals[2].by = "Run"

\* C7: when WaitEvents returns, the device context's wait has been called
\* once for every event of the sequence, the i-th call on the i-th event, in
\* the order of the sequence, also past events that have failed.
C7_WaitsAllInOrder ==
    wait.call = "WaitEvents" => wait.waited = wait.args

C7_Witness ==
    /\ wait.call = "WaitEvents"
    /\ Len(wait.args) = 2
    /\ wait.args[1] # wait.args[2]
    /\ HasFailed(wait.args[1])
    /\ wait.waited = wait.args

\* C8: when WaitEvent or WaitEvents has returned, every event it was given
\* has been signaled.
C8_ReturnsAfterSignal ==
    wait.call # "none" => \A i \in 1..Len(wait.args) : Len(ev[wait.args[i]]) > 0

C8_Witness ==
    /\ wait.call = "WaitEvent"
    /\ Len(ev[wait.args[1]]) > 0
    /\ \E e \in Events : Len(ev[e]) = 0

\* C9: a call of RecordEvent on an operator without an event, with or without
\* a message, does not reach the device context's record and changes neither
\* the operator nor any event; called by the engine or from inside
\* RunOnDevice it leaves the operator where it was.
C9_NoEventNoOp ==
    [][(rec' # rec /\ rec'.op # NoOp /\ ~event_[rec'.op])
          => /\ rec'.ctxRecord = 0
             /\ UNCHANGED <<event_, debug_def_, owned, ev>>
             /\ (run' = run \/ run' = NoRun) => pc' = pc
      ]_vars

C9_Witness ==
    /\ rec.op # NoOp
    /\ ~event_[rec.op]
    /\ rec.arg = Msg(<<"caller message">>)
    /\ run = NoRun
    /\ rec.ctxRecord = 0

\* C10: a call of RecordEvent on an operator that has an event reaches the
\* device context's record once, and the event receives one signal: finished
\* when no message is passed, failed with the message passed otherwise.
C10_RecordsOnce ==
    [][(rec' # rec /\ rec'.op # NoOp /\ event_[rec'.op])
          => LET op == rec'.op
             IN  /\ rec'.ctxRecord = 1
                 /\ Len(ev'[op]) = Len(ev[op]) + 1
                 /\ SubSeq(ev'[op], 1, Len(ev[op])) = ev[op]
                 /\ \A o \in Ops \ {op} : ev'[o] = ev[o]
                 /\ LET new == ev'[op][Len(ev'[op])]
                    IN  IF rec'.arg.given
                           THEN new.kind = "failed" /\ new.msg = rec'.arg.text
                           ELSE new.kind = "finished"
      ]_vars

C10_Witness ==
    /\ rec.op # NoOp
    /\ event_[rec.op]
    /\ run = NoRun
    /\ rec.arg = Msg(<<"caller message">>)
    /\ ev[rec.op] # << >>
    /\ ev[rec.op][Len(ev[rec.op])].kind = "failed"
    /\ ev[rec.op][Len(ev[rec.op])].msg = <<"caller message">>

(* ------------------------------- C11 --------------------------------- *)

\* C11: ExecutePrimitive raises a violation whenever the kernel call returns
\* a failure status, never handing the failure back as a result, and with
\* the success status it returns normally and leaves every event as it was.
C11_RaisesOnFailure ==
    [][(exec' # exec /\ exec'.op # NoOp) =>
          IF exec'.status = "E_SUCCESS"
             THEN /\ exec'.result = "returned"
                  /\ UNCHANGED <<ev, rec, pc, run>>
             ELSE /\ exec'.result = "raised"
                  /\ run'.outcome = "EnforceNotMet"
                  /\ run'.ret = "raised"
                  /\ run'.hookMsg = SafeCallText(exec'.status)]_vars
C11_Witness ==
    /\ exec.op # NoOp
    /\ exec.status # "E_SUCCESS"
    /\ exec.result = "raised"
    /\ RunDone
    /\ run.ret = "raised"

(* ------------------------------- C12 --------------------------------- *)

\* C12 as stated, for an operator that has an event: when RunOnDevice
\* returns false, the message of the failed event is "Error from operator: "
\* followed by the text of the debug definition, or "Error from operator:
\* no op def" when there is none; and the text appended to a violation is
\* that same string.
C12_Original ==
    (RunDone /\ event_[run.op]) =>
        /\ run.outcome = "false" =>
              /\ Len(RunSignals) = 1
              /\ RunSignals[1].kind = "failed"
              /\ RunSignals[1].msg =
                    IF debug_def_[run.op].has
                       THEN <<"Error from operator: ">> \o debug_def_[run.op].text
                       ELSE <<"Error from operator: ", "no op def">>
        /\ run.outcome = "EnforceNotMet" =>
              run.raised = run.hookMsg \o getErrorMsg(run.op)

(* ------------------------------- C13 --------------------------------- *)

\* C13: the stream id is unused: a step that is a call of Run, of WaitEvent
\* or of WaitEvents with one stream id is that same call with any other
\* stream id, so the same state and the same outcome of RunOnDevice give the
\* same return value, the same violation and the same events.
C13_StreamIdUnused ==
    [][\A a \in StreamIds, b \in StreamIds :
          /\ pc' # pc =>
                \A op \in Ops : Run_call(op, a) => Run_call(op, b)
          /\ (wait' # wait /\ wait'.call = "WaitEvent") =>
                (WaitEvent(wait'.op, wait'.args[1], a)
                    => WaitEvent(wait'.op, wait'.args[1], b))
          /\ (wait' # wait /\ wait'.call = "WaitEvents") =>
                (WaitEvents(wait'.op, wait'.args, a)
                    => WaitEvents(wait'.op, wait'.args, b))]_vars
C13_Witness ==
    /\ RunDone
    /\ run.ret = "false"
    /\ wait = NoWait
    /\ \E e \in Ops : e # run.op /\ Len(ev[e]) > 0

(* ------------------------------- C15 --------------------------------- *)

\* C15: every invocation of Run invokes RunOnDevice exactly once: after a
\* false result or a violation Run is left without another call of the hook,
\* and no path of Run leaves it without the hook having been called.
C15_HookOnce ==
    run.op # NoOp =>
        /\ run.hooks = 1
        /\ pc[run.op] = "RunOnDevice" <=> run.ret = "none"
        /\ run.ret # "none" => run.outcome # "none"
C15_Witness ==
    /\ RunDone
    /\ run.outcome \in {"false", "EnforceNotMet"}
    /\ run.hooks = 1
    /\ run.start > 0

(* ------------------------------- C14 --------------------------------- *)

\* C14 as stated: with no event associated, Run returns true without raising
\* when RunOnDevice returns true, returns false without raising when it
\* returns false, and signals nothing in either case.
C14_Original ==
    (RunDone /\ ~event_[run.op] /\ run.outcome \in {"true", "false"}) =>
        /\ run.ret = run.outcome
        /\ InvSignals = << >>

(* ------------------------------- C16 --------------------------------- *)

\* C16 as stated, for an operator that has an event: the return value and
\* the terminal state of the event of an invocation are settled by the
\* outcome of RunOnDevice in that invocation alone.
C16_Original ==
    (RunDone /\ event_[run.op]) =>
        CASE run.outcome = "true" ->
               run.ret = "true" /\ Kinds(InvSignals) = {"finished"}
          [] run.outcome = "false" ->
               run.ret = "false" /\ Kinds(InvSignals) = {"failed"}
          [] run.outcome = "EnforceNotMet" ->
               run.ret = "raised" /\ Kinds(InvSignals) = {"failed"}
          [] OTHER ->
               run.ret = "raised" /\ Kinds(InvSignals) = {}

\* C16, amended: Run keeps no state between invocations: for an operator
\* that has an event, whatever the earlier invocations did, the return value
\* of an invocation and the signals Run itself emits in it are settled by the
\* outcome of RunOnDevice in that invocation (with the message of the
\* violation it raised) and the operator's definition.
C16_NoMemory ==
    (RunDone /\ event_[run.op]) =>
        CASE run.outcome = "true" ->
               /\ run.ret = "true"
               /\ RunSignals = <<Finished("Run")>>
          [] run.outcome = "false" ->
               /\ run.ret = "false"
               /\ RunSignals = <<Failed(CStr(getErrorMsg(run.op)), "Run")>>
          [] run.outcome = "EnforceNotMet" ->
               /\ run.ret = "raised"
               /\ RunSignals =
                     <<Failed(CStr(run.hookMsg \o getErrorMsg(run.op)), "Run")>>
          [] OTHER ->
               /\ run.ret = "raised"
               /\ RunSignals = << >>
\* A successful invocation after one that failed on the same operator.
C16_Witness ==
    /\ RunDone
    /\ event_[run.op]
    /\ run.outcome = "true"
    /\ run.ret = "true"
    /\ run.start > 0
    /\ ev[run.op][1].kind = "failed"
    /\ ev[run.op][1].by = "Run"
    /\ RunSignals = <<Finished("Run")>>

(* ------------------------------- C17 --------------------------------- *)

\* C17: the primitive, the resources, the input size cache and the buffer of
\* an operator change only in a step its own RunOnDevice takes by itself:
\* the steps of Run, WaitEvent, WaitEvents, RecordEvent and the error message
\* helper leave them as they are.
C17_MembersUntouched ==
    [][owned' # owned =>
          \E op \in Ops :
              /\ pc[op] = "RunOnDevice"
              /\ \A other \in Ops \ {op} : owned'[other] = owned[other]
              /\ UNCHANGED <<event_, debug_def_, ev, pc, run, rec, wait>>]_vars
\* An operator whose members were set up, after Run signaled its event and a
\* wait on it returned.
C17_Witness ==
    \E op \in Ops :
        /\ owned[op] # Unconfigured
        /\ pc[op] = "idle"
        /\ Len(ev[op]) > 0
        /\ ev[op][Len(ev[op])].by = "Run"
        /\ wait.call = "WaitEvents"
        /\ wait.waited = <<op>>

====
